---- MODULE Spec2Model ----
(***************************************************************************)
(* Model of src/scrapper.py: the sequential crawl of utahgunexchange.com.  *)
(*                                                                         *)
(* A string is a sequence of tokens (single characters, or a longer literal *)
(* such as "total views" or a host, kept as one token).  An optional value *)
(* (Python None or a value) is <<>> or <<v>>.  One step of the model is one *)
(* HTTP GET together with all the code that runs until the next GET, or    *)
(* the final export of main().                                             *)
(***************************************************************************)
EXTENDS Integers, Sequences, FiniteSets, TLC

VARIABLES pc, err, index_page, cats, ci, page, all_recs, all_data, results, log, out

vars == <<pc, err, index_page, cats, ci, page, all_recs, all_data, results, log, out>>

\* ------------------------------------------------------------------ bounds
\* MAX_PAGES_PER_CATEGORY is 50 in the source (line 27); the model scales it
\* down so that the cap is reached within the explored state space.
MAX_PAGES_PER_CATEGORY == 2

None == <<>>
Some(v) == <<v>>

\* ------------------------------------------------------------------ strings
Digits == {"0", "1", "2", "3", "4", "5", "6", "7", "8", "9"}

DigitVal(c) ==
  CASE c = "0" -> 0 [] c = "1" -> 1 [] c = "2" -> 2 [] c = "3" -> 3 [] c = "4" -> 4
    [] c = "5" -> 5 [] c = "6" -> 6 [] c = "7" -> 7 [] c = "8" -> 8 [] c = "9" -> 9

DigitChar(d) ==
  CASE d = 0 -> "0" [] d = 1 -> "1" [] d = 2 -> "2" [] d = 3 -> "3" [] d = 4 -> "4"
    [] d = 5 -> "5" [] d = 6 -> "6" [] d = 7 -> "7" [] d = 8 -> "8" [] d = 9 -> "9"

\* code points of the characters that occur in category names
Code(c) ==
  CASE c = " " -> 32 [] c = "A" -> 65 [] c = "B" -> 66 [] OTHER -> 0

Whitespace == {" "}

RECURSIVE lstrip(_, _)
lstrip(s, chars) ==
  IF s # <<>> /\ Head(s) \in chars THEN lstrip(Tail(s), chars) ELSE s

RECURSIVE rstrip(_, _)
rstrip(s, chars) ==
  IF s # <<>> /\ s[Len(s)] \in chars THEN rstrip(SubSeq(s, 1, Len(s) - 1), chars) ELSE s

\* get_text(strip=True)
get_text(s) == rstrip(lstrip(s, Whitespace), Whitespace)

\* sub in s
Contains(s, sub) ==
  \E i \in 1..(Len(s) + 1) : i + Len(sub) - 1 <= Len(s) /\ SubSeq(s, i, i + Len(sub) - 1) = sub

\* s.replace(c, "")
RECURSIVE remove(_, _)
remove(s, c) ==
  IF s = <<>> THEN <<>>
  ELSE IF Head(s) = c THEN remove(Tail(s), c) ELSE <<Head(s)>> \o remove(Tail(s), c)

\* the longest prefix of s made of characters of chars (a greedy [chars]* at position 1)
RECURSIVE span(_, _)
span(s, chars) ==
  IF s # <<>> /\ Head(s) \in chars THEN <<Head(s)>> \o span(Tail(s), chars) ELSE <<>>

\* str(n) for n >= 0
RECURSIVE str(_)
str(n) == IF n < 10 THEN <<DigitChar(n)>> ELSE str(n \div 10) \o <<DigitChar(n % 10)>>

\* the value of a string of decimal digits
RECURSIVE DigitsValue(_)
DigitsValue(s) ==
  IF s = <<>> THEN 0 ELSE 10 * DigitsValue(SubSeq(s, 1, Len(s) - 1)) + DigitVal(s[Len(s)])

\* Python's comparison of two strings: lexicographic by code point
RECURSIVE StrLess(_, _)
StrLess(a, b) ==
  IF b = <<>> THEN FALSE
  ELSE IF a = <<>> THEN TRUE
  ELSE IF Code(Head(a)) # Code(Head(b)) THEN Code(Head(a)) < Code(Head(b))
  ELSE StrLess(Tail(a), Tail(b))

\* ------------------------------------------------------------------ URLs
BASE_URL == <<"https://utahgunexchange.com">>

CATEGORIES_URL == BASE_URL \o <<"/", "categories", "/">>

\* tokens that begin with "http"
HttpPrefixed == {"https://utahgunexchange.com", "http://mirror.example"}

startswith_http(href) == href # <<>> /\ Head(href) \in HttpPrefixed

\* urljoin(base, href) for a base without a path and an href without a scheme
urljoin(base, href) ==
  IF href = <<>> THEN base
  ELSE IF Head(href) = "/" THEN base \o href
  ELSE base \o <<"/">> \o href

\* ------------------------------------------------------------------ HTTP
\* requests.Response.raise_for_status raises HTTPError for 4xx and 5xx only
raise_for_status_missing(status) == FALSE

raise_for_status(status) == 400 <= status /\ status < 600

\* ------------------------------------------------------------------ get_category_links
\* cats[name] = full_url on an insertion-ordered dict, kept as a sequence of pairs
dict_setdefault(d, name, url) ==
  IF \E i \in 1..Len(d) : d[i].name = name THEN d
  ELSE Append(d, [name |-> name, url |-> url])

dict_set(d, name, url) ==
  IF \E i \in 1..Len(d) : d[i].name = name
  THEN [i \in 1..Len(d) |-> IF d[i].name = name THEN [name |-> name, url |-> url] ELSE d[i]]
  ELSE Append(d, [name |-> name, url |-> url])

full_url(href) == IF startswith_http(href) THEN href ELSE urljoin(BASE_URL, href)

\* the loop of lines 40-47 over the anchors of the container, from d
RECURSIVE collect_cats(_, _)
collect_cats(anchors, d) ==
  IF anchors = <<>> THEN d
  ELSE LET a == Head(anchors) IN
    IF a.href = None \/ ~Contains(a.href[1], <<"/", "ad-category", "/">>)
    THEN collect_cats(Tail(anchors), d)
    ELSE collect_cats(Tail(anchors), dict_set(d, get_text(a.text), full_url(a.href[1])))

\* ------------------------------------------------------------------ fetch_listings_from_page
NumChars == Digits \cup {",", "."}

\* re.search(r"[\d,\.]+", txt): the first maximal run of digits, commas and dots
RECURSIVE search_number(_)
search_number(txt) ==
  IF txt = <<>> THEN None
  ELSE IF Head(txt) \in NumChars THEN Some(span(txt, NumChars))
  ELSE search_number(Tail(txt))

Count(s, c) == Cardinality({i \in 1..Len(s) : s[i] = c})

\* a decimal value mant / 10^exp without trailing zeros in the fraction
RECURSIVE normal(_, _)
normal(mant, exp) ==
  IF exp > 0 /\ mant % 10 = 0 THEN normal(mant \div 10, exp - 1)
  ELSE [mant |-> mant, exp |-> exp]

\* float(s) for s made of digits and dots: None stands for ValueError
float(s) ==
  IF Count(s, ".") > 1 \/ \A i \in 1..Len(s) : s[i] \notin Digits THEN None
  ELSE Some(normal(DigitsValue(remove(s, ".")),
                   IF Count(s, ".") = 0 THEN 0
                   ELSE Len(s) - (CHOOSE i \in 1..Len(s) : s[i] = ".")))

\* int(s) for s made of digits: None stands for ValueError
int(s) == IF s = <<>> THEN None ELSE Some(DigitsValue(s))

\* lines 68-77
parse_price(price_el) ==
  IF price_el = None THEN None
  ELSE LET m == search_number(get_text(price_el[1])) IN
    IF m = None THEN None ELSE float(remove(m[1], ","))

\* re.match(r"([\d,]+)\s+total views", txt): group 1, or None
match_views(txt) ==
  LET g    == span(txt, Digits \cup {","})
      rest == SubSeq(txt, Len(g) + 1, Len(txt))
      ws   == span(rest, Whitespace)
      tail == SubSeq(rest, Len(ws) + 1, Len(rest))
  IN IF g # <<>> /\ ws # <<>> /\ tail # <<>> /\ Head(tail) = "total views"
     THEN Some(g) ELSE None

\* lines 80-89
parse_views(stats_el) ==
  IF stats_el = None THEN None
  ELSE LET m == match_views(get_text(stats_el[1])) IN
    IF m = None THEN None ELSE int(remove(m[1], ","))

\* left.get("title") or left.get_text(strip=True)
title_of(left) ==
  IF left.title # None /\ left.title[1] # <<>> THEN left.title[1] ELSE get_text(left.text)

\* the loop of lines 59-97 from the listings collected so far; left["href"]
\* raises KeyError when the anchor has no href attribute
RECURSIVE extract(_, _, _)
extract(cat_name, blocks, listings) ==
  IF blocks = <<>> THEN [exc |-> "none", recs |-> listings]
  ELSE LET blk == Head(blocks) IN
    IF blk.preview = None THEN extract(cat_name, Tail(blocks), listings)
    ELSE IF blk.preview[1].href = None THEN [exc |-> "KeyError", recs |-> <<>>]
    ELSE extract(cat_name, Tail(blocks),
                 Append(listings, [Category |-> cat_name,
                                   Title    |-> title_of(blk.preview[1]),
                                   URL      |-> blk.preview[1].href[1],
                                   Price    |-> parse_price(blk.price),
                                   Views    |-> parse_views(blk.stats)]))

is_not_found_never(status) == FALSE

\* line 53
is_not_found(status) == status = 404

fetch_listings_from_page(cat_name, resp) ==
  IF is_not_found(resp.status) THEN [exc |-> "none", recs |-> <<>>]
  ELSE IF raise_for_status(resp.status) THEN [exc |-> "HTTPError", recs |-> <<>>]
  ELSE extract(cat_name, resp.body, <<>>)

\* ------------------------------------------------------------------ fetch_category_listings
page_url(cat_url, p) ==
  IF p = 1 THEN cat_url
  ELSE rstrip(cat_url, {"/"}) \o <<"/", "page", "/">> \o str(p) \o <<"/">>

extend_overwrite(list, recs) == recs

\* list.extend(recs)
extend(list, recs) == list \o recs

stop_paginating_never(recs) == FALSE

\* if not recs: break
stop_paginating(recs) == recs = <<>>

last_page_off_by_one == MAX_PAGES_PER_CATEGORY + 1

\* the last value of range(1, MAX_PAGES_PER_CATEGORY + 1)
last_page == MAX_PAGES_PER_CATEGORY

\* ------------------------------------------------------------------ main: sort and export
views_before_ascending(a, b) == a # None /\ (b = None \/ a[1] < b[1])

\* Views descending, missing values last (na_position="last")
views_before(a, b) == a # None /\ (b = None \/ a[1] > b[1])

\* row a sorts strictly before row b under ["Category", "Views"], ascending=[True, False]
row_before(a, b) ==
  \/ StrLess(a.Category, b.Category)
  \/ a.Category = b.Category /\ views_before(a.Views, b.Views)

\* insert r after every row that does not sort after it (the sort is stable)
RECURSIVE insert(_, _)
insert(sorted, r) ==
  IF sorted = <<>> THEN <<r>>
  ELSE IF row_before(r, Head(sorted)) THEN <<r>> \o sorted
  ELSE <<Head(sorted)>> \o insert(Tail(sorted), r)

RECURSIVE sort_values(_)
sort_values(df) ==
  IF df = <<>> THEN <<>>
  ELSE insert(sort_values(SubSeq(df, 1, Len(df) - 1)), df[Len(df)])

df_empty_never(df) == FALSE

\* df.empty
df_empty(df) == df = <<>>

\* ------------------------------------------------------------------ the site: inputs
HrefRifles == <<"/", "ad-category", "/", "rifles", "/">>
HrefAmmo   == <<"https://utahgunexchange.com", "/", "ad-category", "/", "ammo">>
HrefOther  == <<"http://mirror.example", "/", "ad-category", "/", "ammo", "/", "/">>
HrefAbout  == <<"/", "about", "/">>

\* <a> elements of the container of the categories page
AnchorB      == [href |-> Some(HrefRifles), text |-> <<" ", "B", " ">>]
AnchorA      == [href |-> Some(HrefAmmo),   text |-> <<"A">>]
AnchorAgain  == [href |-> Some(HrefOther),  text |-> <<"A", " ">>]
AnchorAbout  == [href |-> Some(HrefAbout),  text |-> <<"A", "B">>]
AnchorNoHref == [href |-> None,             text |-> <<"B">>]

NoContainer == [container |-> FALSE, anchors |-> <<>>]

Container(anchors) == [container |-> TRUE, anchors |-> anchors]

IndexBodies ==
  { NoContainer,
    Container(<<>>),
    Container(<<AnchorAbout, AnchorNoHref>>),
    Container(<<AnchorB>>),
    Container(<<AnchorB, AnchorA>>),
    Container(<<AnchorA, AnchorAgain>>),
    Container(<<AnchorA, AnchorNoHref, AnchorB, AnchorAbout, AnchorAgain>>) }

IndexResponses ==
  {[status |-> 200, body |-> b] : b \in IndexBodies}
    \cup {[status |-> 304, body |-> b] :
            b \in {NoContainer, Container(<<AnchorB>>)}}
    \cup {[status |-> s, body |-> NoContainer] : s \in {404, 500}}

Preview(href, title, text) == Some([href |-> href, title |-> title, text |-> text])

Block(preview, price, stats) == [preview |-> preview, price |-> price, stats |-> stats]

Link1 == <<"/", "ad", "/", "1">>
Link2 == <<"/", "ad", "/", "2">>

\* "$1,250.50 (obo)", title attribute, "5 total views"
BlockA ==
  Block(Preview(Some(Link1), Some(<<"G", "1">>), <<"x">>),
        Some(<<" ", "$", "1", ",", "2", "5", "0", ".", "5", "0", " ", "(", "obo", ")">>),
        Some(<<"5", " ", "total views">>))

\* no price element, empty title attribute, "2,0  total views today"
BlockB ==
  Block(Preview(Some(Link2), Some(<<>>), <<" ", "G", "2", " ">>),
        None,
        Some(<<" ", "2", ",", "0", " ", " ", "total views", " ", "today">>))

\* price "call 1.2.3", no title attribute, stats ", total views"
BlockC ==
  Block(Preview(Some(Link1), None, <<"G", "3">>),
        Some(<<"call", " ", "1", ".", "2", ".", "3">>),
        Some(<<",", " ", "total views">>))

\* price "$.", stats "10 total views"
BlockD ==
  Block(Preview(Some(Link2), Some(<<"G", "4">>), <<>>),
        Some(<<"$", ".">>),
        Some(<<"1", "0", " ", "total views">>))

\* price "from 10. each", stats "1 0 total views"
BlockE ==
  Block(Preview(Some(Link1), Some(<<"G", "5">>), <<>>),
        Some(<<"from", " ", "1", "0", ".", " ", "each">>),
        Some(<<"1", " ", "0", " ", "total views">>))

\* a listing block without the preview anchor
BlockNoPreview ==
  Block(None, Some(<<"$", "7">>), Some(<<"7", " ", "total views">>))

\* a listing block whose preview anchor has no href attribute
BlockNoHref ==
  Block(Preview(None, Some(<<"G", "6">>), <<"x">>), Some(<<"$", "7">>), None)

PageEmpty     == <<>>
PageNoPreview == <<BlockNoPreview>>
PageOne       == <<BlockA, BlockNoPreview, BlockB>>
PageTwo       == <<BlockC, BlockD, BlockE>>
PageNoHref    == <<BlockA, BlockNoPreview, BlockNoHref>>

PageBodies == {PageEmpty, PageNoPreview, PageOne, PageTwo, PageNoHref}

PageResponses ==
  {[status |-> 200, body |-> b] : b \in PageBodies}
    \cup {[status |-> 304, body |-> b] : b \in {PageEmpty, PageTwo}}
    \cup {[status |-> s, body |-> PageEmpty] : s \in {404, 500}}

\* ------------------------------------------------------------------ the run
Init ==
  /\ pc = "start"
  /\ err = "none"
  /\ index_page = NoContainer
  /\ cats = <<>>
  /\ ci = 0
  /\ page = 0
  /\ all_recs = <<>>
  /\ all_data = <<>>
  /\ results = <<>>
  /\ log = <<>>
  /\ out = None

Request(kind, url, cat, p, resp, exc, recs) ==
  [kind |-> kind, url |-> url, cat |-> cat, page |-> p, status |-> resp.status,
   body |-> IF kind = "page" THEN resp.body ELSE <<>>, exc |-> exc, recs |-> recs]

\* lines 33-38: the outcome of the GET of the categories page
get_category_links(resp) ==
  IF raise_for_status(resp.status) THEN [exc |-> "HTTPError", cats |-> <<>>]
  ELSE IF ~resp.body.container THEN [exc |-> "RuntimeError", cats |-> <<>>]
  ELSE [exc |-> "none", cats |-> collect_cats(resp.body.anchors, <<>>)]

\* main, lines 115-119, and the entry of the loop of line 120
GetCategoryLinks(resp) ==
  /\ pc = "start"
  /\ LET r == get_category_links(resp) IN
       /\ log' = Append(log, Request("index", CATEGORIES_URL, <<>>, 0, resp, r.exc, <<>>))
       /\ index_page' = resp.body
       /\ IF r.exc # "none"
          THEN /\ pc' = "aborted"
               /\ err' = r.exc
               /\ UNCHANGED <<cats, ci, page>>
          ELSE /\ cats' = r.cats
               /\ err' = err
               /\ IF r.cats = <<>>
                  THEN pc' = "export" /\ UNCHANGED <<ci, page>>
                  ELSE pc' = "crawl" /\ ci' = 1 /\ page' = 1
  /\ UNCHANGED <<all_recs, all_data, results, out>>

\* one iteration of the loop of lines 103-111 for category ci; when the loop
\* ends, the return to main (lines 122-124) and the next category
FetchPage(resp) ==
  /\ pc = "crawl"
  /\ LET name == cats[ci].name
         url  == page_url(cats[ci].url, page)
         r    == fetch_listings_from_page(name, resp)
         acc  == IF stop_paginating(r.recs) THEN all_recs ELSE extend(all_recs, r.recs)
     IN
       /\ log' = Append(log, Request("page", url, name, page, resp, r.exc, r.recs))
       /\ IF r.exc # "none"
          THEN /\ pc' = "aborted"
               /\ err' = r.exc
               /\ UNCHANGED <<ci, page, all_recs, all_data, results>>
          ELSE IF ~stop_paginating(r.recs) /\ page # last_page
          THEN /\ all_recs' = acc
               /\ page' = page + 1
               /\ UNCHANGED <<pc, err, ci, all_data, results>>
          ELSE /\ results' = Append(results, acc)
               /\ all_data' = extend(all_data, acc)
               /\ all_recs' = <<>>
               /\ err' = err
               /\ IF ci = Len(cats)
                  THEN pc' = "export" /\ UNCHANGED <<ci, page>>
                  ELSE pc' = "crawl" /\ ci' = ci + 1 /\ page' = 1
  /\ UNCHANGED <<index_page, cats, out>>

\* main, lines 126-143
Export ==
  /\ pc = "export"
  /\ pc' = "done"
  /\ out' = IF df_empty(all_data) THEN None ELSE Some(sort_values(all_data))
  /\ UNCHANGED <<err, index_page, cats, ci, page, all_recs, all_data, results, log>>

Next ==
  \/ \E resp \in IndexResponses : GetCategoryLinks(resp)
  \/ \E resp \in PageResponses : FetchPage(resp)
  \/ Export

Spec == Init /\ [][Next]_vars

\* ------------------------------------------------------------------ properties
Is2xx(status) == 200 <= status /\ status < 300

IsError(status) == 400 <= status /\ status < 600

PageReqs == {i \in 1..Len(log) : log[i].kind = "page"}

ReqsOf(name) == {i \in PageReqs : log[i].cat = name}

CatIndex(name) == CHOOSE k \in 1..Len(cats) : cats[k].name = name

\* the records of the first n requests that belong to category name, in order
RECURSIVE RecsUpTo(_, _)
RecsUpTo(name, n) ==
  IF n = 0 THEN <<>>
  ELSE RecsUpTo(name, n - 1)
         \o (IF log[n].kind = "page" /\ log[n].cat = name THEN log[n].recs ELSE <<>>)

Occurrences(s, x) == Cardinality({i \in 1..Len(s) : s[i] = x})

IsPermutation(s, t) ==
  /\ Len(s) = Len(t)
  /\ \A i \in 1..Len(s) : Occurrences(s, s[i]) = Occurrences(t, s[i])

\* a page whose fetch is a 404 or whose extraction yields no record
EndsCategory(i) ==
  log[i].kind = "page" /\ (log[i].status = 404 \/ (log[i].exc = "none" /\ log[i].recs = <<>>))

\* C1: pages of a category are requested as 1, 2, 3, ... and the first page
\* that is a 404 or yields no record is the last one requested for the
\* category; the category's result is the concatenation, in page order, of
\* the records of the pages before it.
C1_EarlyTermination ==
  \A i \in PageReqs :
    /\ log[i].page = Cardinality({j \in ReqsOf(log[i].cat) : j <= i})
    /\ EndsCategory(i) =>
         /\ \A j \in ReqsOf(log[i].cat) : j <= i
         /\ Len(results) >= CatIndex(log[i].cat)
         /\ results[CatIndex(log[i].cat)] = RecsUpTo(log[i].cat, i - 1)

\* a category that gave records on page 1, stopped at a page 2 whose blocks
\* all lack the preview anchor, and was followed by another category
C1_Witness ==
  \E i \in PageReqs :
    /\ log[i].page = 2 /\ log[i].status = 200 /\ log[i].body = PageNoPreview
    /\ results[CatIndex(log[i].cat)] # <<>>
    /\ i < Len(log)

\* C2: no category is asked for more than MAX_PAGES_PER_CATEGORY pages or for
\* a page number above it, no page twice; a category whose pages all gave
\* records was asked for exactly that many pages and returned normally.
C2_PaginationCap ==
  \A k \in 1..Len(cats) :
    LET reqs == ReqsOf(cats[k].name) IN
      /\ Cardinality(reqs) <= MAX_PAGES_PER_CATEGORY
      /\ \A i \in reqs : log[i].page \in 1..MAX_PAGES_PER_CATEGORY
      /\ \A i, j \in reqs : log[i].page = log[j].page => i = j
      /\ (\A i \in reqs : log[i].exc = "none" /\ log[i].recs # <<>>) =>
           /\ Len(results) >= k => Cardinality(reqs) = MAX_PAGES_PER_CATEGORY
           /\ Cardinality(reqs) = MAX_PAGES_PER_CATEGORY =>
                Len(results) >= k /\ results[k] = RecsUpTo(cats[k].name, Len(log))

\* a finished run in which a category reached the cap
C2_Witness ==
  /\ pc = "done"
  /\ \E k \in 1..Len(cats) :
       /\ Cardinality(ReqsOf(cats[k].name)) = MAX_PAGES_PER_CATEGORY
       /\ \A i \in ReqsOf(cats[k].name) : log[i].recs # <<>>

\* C3: the written rows are ordered by category ascending and, within a
\* category, by views descending with the rows without views last.
C3_SortOrder ==
  out # None =>
    \A i, j \in 1..Len(out[1]) :
      i < j =>
        LET a == out[1][i]
            b == out[1][j]
        IN /\ ~StrLess(b.Category, a.Category)
           /\ a.Category = b.Category =>
                /\ a.Views = None => b.Views = None
                /\ (a.Views # None /\ b.Views # None) => a.Views[1] >= b.Views[1]

\* an output that had to be reordered: two categories, and in one of them
\* two different view counts followed by a row without views
C3_Witness ==
  /\ out # None
  /\ out[1] # all_data
  /\ \E i, j, k, l \in 1..Len(out[1]) :
       /\ i < j /\ j < k
       /\ out[1][i].Category = out[1][j].Category
       /\ out[1][j].Category = out[1][k].Category
       /\ out[1][i].Views # None /\ out[1][j].Views # None
       /\ out[1][i].Views[1] > out[1][j].Views[1]
       /\ out[1][k].Views = None
       /\ out[1][l].Category # out[1][i].Category

\* the records of the pages of the first k categories, in crawl order
RECURSIVE CrawledUpTo(_)
CrawledUpTo(k) ==
  IF k = 0 THEN <<>> ELSE CrawledUpTo(k - 1) \o RecsUpTo(cats[k].name, Len(log))

\* C4: a run that completes with records writes a permutation of the records
\* returned for the discovered categories, which are the records extracted
\* from their pages: one row per record, none dropped or merged.
C4_Conservation ==
  (pc = "done" /\ (\E i \in PageReqs : log[i].recs # <<>>)) =>
    /\ out # None
    /\ Len(results) = Len(cats)
    /\ \A k \in 1..Len(cats) : results[k] = RecsUpTo(cats[k].name, Len(log))
    /\ IsPermutation(out[1], CrawledUpTo(Len(cats)))

\* two categories, three records on page 1 of each, none on page 2: six rows
C4_Witness ==
  /\ pc = "done"
  /\ Len(cats) = 2
  /\ Len(log) = 5
  /\ \A i \in PageReqs : Len(log[i].recs) = (IF log[i].page = 1 THEN 3 ELSE 0)
  /\ out # None
  /\ Len(out[1]) = 6

\* C5 as stated: a 404 never raises, whatever the request, and an HTTP error
\* is raised only for a status that is neither 2xx nor 404.
C5_NotFoundNeverRaises ==
  \A i \in 1..Len(log) :
    /\ log[i].status = 404 => log[i].exc = "none"
    /\ log[i].exc = "HTTPError" => ~Is2xx(log[i].status) /\ log[i].status # 404

\* C5, amended: a 404 of a category page gives the empty result and does not
\* raise; a 404 of the categories page raises the HTTP error; an HTTP error
\* is raised only for a non-2xx status, and for a 404 only on the categories
\* page.
C5_NotFoundOfPages ==
  \A i \in 1..Len(log) :
    /\ (log[i].kind = "page" /\ log[i].status = 404) =>
         log[i].exc = "none" /\ log[i].recs = <<>>
    /\ (log[i].kind = "index" /\ log[i].status = 404) => log[i].exc = "HTTPError"
    /\ log[i].exc = "HTTPError" =>
         ~Is2xx(log[i].status) /\ (log[i].status = 404 => log[i].kind = "index")

\* a run that met a 404 on a category page and went on to write its output
C5_Witness ==
  /\ out # None
  /\ \E i \in PageReqs : log[i].status = 404 /\ log[i].page = 2

\* C6 as stated: a status that is neither 2xx nor 404, or a categories page
\* without the container, aborts the run: it is the last request and no
\* output is written.
C6_NonSuccessAborts ==
  \A i \in 1..Len(log) :
    ((~Is2xx(log[i].status) /\ log[i].status # 404)
       \/ (log[i].kind = "index" /\ ~index_page.container)) =>
      pc = "aborted" /\ i = Len(log) /\ out = None

\* the request failed: a 4xx or 5xx status other than the 404 of a category
\* page, or a categories page without the container
Fatal(i) ==
  \/ IsError(log[i].status) /\ ~(log[i].kind = "page" /\ log[i].status = 404)
  \/ log[i].kind = "index" /\ ~index_page.container

\* C6, amended: a 4xx or 5xx status (other than the 404 of a category page)
\* or a categories page without the container aborts the run with an error:
\* it is the last request, no output is written, and a missing container
\* aborts before any category page is requested.
C6_FatalAborts ==
  \A i \in 1..Len(log) :
    Fatal(i) =>
      /\ pc = "aborted" /\ err # "none"
      /\ i = Len(log)
      /\ out = None
      /\ (log[i].kind = "index" /\ ~IsError(log[i].status)) =>
           err = "RuntimeError" /\ Len(log) = 1

\* a run aborted by a 500 after an earlier category had produced records
C6_Witness ==
  /\ pc = "aborted"
  /\ log[Len(log)].status = 500
  /\ all_data # <<>>
  /\ out = None

\* C7: an output is written exactly when the run completes with at least one
\* record; a run that completes does so without an error.
C7_EmptyAggregate ==
  /\ out # None <=> (pc = "done" /\ all_data # <<>>)
  /\ pc = "done" => err = "none"
  /\ out # None => out[1] # <<>>

\* a run that crawled two categories, found no record and completed
C7_Witness ==
  /\ pc = "done"
  /\ Len(cats) = 2
  /\ Len(results) = 2
  /\ all_data = <<>>
  /\ out = None

HasPreview(blk) == blk.preview # None

\* C8 as stated: on every page that was fetched, the blocks with the preview
\* anchor give one record each, in page order, under the category passed in.
C8_BlockRejectionLocal ==
  \A i \in PageReqs :
    (~IsError(log[i].status)) =>
      LET kept == SelectSeq(log[i].body, HasPreview) IN
        /\ Len(log[i].recs) = Len(kept)
        /\ \A k \in 1..Len(log[i].recs) :
             /\ log[i].recs[k].Category = log[i].cat
             /\ log[i].recs[k].Title = title_of(kept[k].preview[1])

\* C9 as stated: the extraction of a fetched page never raises.
C9_ExtractionNeverRaises ==
  \A i \in PageReqs : (~IsError(log[i].status)) => log[i].exc = "none"

IsCategoryAnchor(a) == a.href # None /\ Contains(a.href[1], <<"/", "ad-category", "/">>)

\* the positions of the category anchors of the categories page named name
AnchorsNamed(name) ==
  {j \in 1..Len(index_page.anchors) :
     IsCategoryAnchor(index_page.anchors[j]) /\ get_text(index_page.anchors[j].text) = name}

Min(S) == CHOOSE x \in S : \A y \in S : x <= y

Max(S) == CHOOSE x \in S : \A y \in S : x >= y

\* C10: the categories page is requested once, first; the categories are the
\* names of its category anchors in order of first occurrence, each with the
\* URL of its last occurrence; a request follows either a page of the same
\* category that gave records (the next page) or the end of the previous
\* category (page 1 of the next one).
C10_SequentialOrder ==
  /\ pc # "start" => Len(log) >= 1
  /\ \A i \in 1..Len(log) : log[i].kind = "index" <=> i = 1
  /\ (Len(log) >= 1 /\ log[1].exc = "none") =>
       /\ \A j \in 1..Len(index_page.anchors) :
            IsCategoryAnchor(index_page.anchors[j]) =>
              \E k \in 1..Len(cats) : cats[k].name = get_text(index_page.anchors[j].text)
       /\ \A k \in 1..Len(cats) :
            /\ AnchorsNamed(cats[k].name) # {}
            /\ cats[k].url =
                 full_url(index_page.anchors[Max(AnchorsNamed(cats[k].name))].href[1])
       /\ \A k1, k2 \in 1..Len(cats) :
            k1 < k2 => Min(AnchorsNamed(cats[k1].name)) < Min(AnchorsNamed(cats[k2].name))
  /\ \A i \in PageReqs :
       /\ log[i].url = page_url(cats[CatIndex(log[i].cat)].url, log[i].page)
       /\ IF i = 2 THEN CatIndex(log[i].cat) = 1 /\ log[i].page = 1
          ELSE /\ log[i - 1].exc = "none"
               /\ \/ /\ log[i - 1].cat = log[i].cat
                     /\ log[i - 1].recs # <<>>
                     /\ log[i].page = log[i - 1].page + 1
                  \/ /\ CatIndex(log[i].cat) = CatIndex(log[i - 1].cat) + 1
                     /\ log[i].page = 1

\* a name that occurs twice on the categories page, two categories, and two
\* pages requested for each
C10_Witness ==
  /\ Len(cats) = 2
  /\ \E k \in 1..2 : Cardinality(AnchorsNamed(cats[k].name)) = 2
  /\ \A k \in 1..2 : \E i \in ReqsOf(cats[k].name) : log[i].page = 2

====
